---- MODULE Spec2Model ----
(***************************************************************************)
(* A model of grub-core/disk/luks2.c: the LUKS2 backend of GRUB's          *)
(* cryptodisk layer.  luks2_scan probes a device for a LUKS2 header and    *)
(* luks2_recover_key unlocks it: header selection, JSON metadata, the      *)
(* keyslot trial loop, and the installation of the master key.             *)
(*                                                                         *)
(* Multi-byte header fields are kept as big-endian byte sequences (two     *)
(* bytes wide here instead of eight).  Key material is symbolic: PBKDF2,   *)
(* the sector cipher and the AF merge build and take apart terms, so a     *)
(* candidate key verifies only when it was derived from the right          *)
(* passphrase with the right parameters.                                   *)
(***************************************************************************)
EXTENDS Integers, Sequences, FiniteSets, TLC

VARIABLES
    input,        \* the device, the detached header file and the call arguments
    pc,           \* position in luks2_scan / luks2_recover_key
    grub_errno,   \* GRUB's global error number
    grub_errmsg,  \* GRUB's global error message
    crypt,        \* the grub_cryptodisk_t (crypt.alloc = FALSE: NULL)
    rh,           \* what the last luks2_read_header call did
    loc,          \* the locals of luks2_recover_key
    bufs,         \* the scratch buffers that hold secrets
    trace,        \* the operations performed on behalf of each keyslot
    prev          \* the outcome of an earlier attempt on the same volume

vars == <<input, pc, grub_errno, grub_errmsg, crypt, rh, loc, bufs, trace, prev>>

(***************************************************************************)
(* Bounds of the model.                                                    *)
(***************************************************************************)
MaxByte == 1
MaxSlots == 2

(***************************************************************************)
(* Program constants.                                                      *)
(***************************************************************************)
LUKS_MAGIC_1ST == <<76, 85, 75, 83, 186, 190>>
LUKS_MAGIC_2ND == <<83, 75, 85, 76, 186, 190>>
SizeofHeader == 4096

GRUB_ERR_NONE == "GRUB_ERR_NONE"
GRUB_ERR_BAD_SIGNATURE == "GRUB_ERR_BAD_SIGNATURE"
GRUB_ERR_BAD_ARGUMENT == "GRUB_ERR_BAD_ARGUMENT"
GRUB_ERR_FILE_NOT_FOUND == "GRUB_ERR_FILE_NOT_FOUND"
GRUB_ERR_ACCESS_DENIED == "GRUB_ERR_ACCESS_DENIED"
GRUB_ERR_OUT_OF_MEMORY == "GRUB_ERR_OUT_OF_MEMORY"
GRUB_ERR_IO == "GRUB_ERR_IO"
GRUB_ERR_READ_ERROR == "GRUB_ERR_READ_ERROR"

(***************************************************************************)
(* Big-endian decoding: grub_be_to_cpu16 / grub_be_to_cpu64.               *)
(***************************************************************************)
RECURSIVE grub_be_to_cpu(_)
grub_be_to_cpu(bytes) ==
    IF bytes = <<>> THEN 0
    ELSE 256 * grub_be_to_cpu(SubSeq(bytes, 1, Len(bytes) - 1)) + bytes[Len(bytes)]

(***************************************************************************)
(* struct grub_luks2_header, the fields the code reads.                    *)
(***************************************************************************)
Header(magic, version, hdr_size, seqid, uuid, hdr_offset) ==
    [magic |-> magic, version |-> version, hdr_size |-> hdr_size,
     seqid |-> seqid, uuid |-> uuid, hdr_offset |-> hdr_offset]

\* What a read of a region that holds no header yields.
BlankHeader == Header(<<0, 0, 0, 0, 0, 0>>, <<0, 0>>, <<0, 0>>, <<0, 0>>, <<>>, <<0, 0>>)

(***************************************************************************)
(* Reading SizeofHeader bytes at an offset of the device or of the         *)
(* detached header file (grub_disk_read, grub_file_seek + grub_file_read): *)
(* a read past the end fails, and the failure is the value returned.       *)
(***************************************************************************)
ReadSource(in) == IF in.hdr_file.present THEN in.hdr_file.dev ELSE in.source

grub_read_ok(dev, offset, size) == offset >= 0 /\ size >= 0 /\ offset + size <= dev.size

ReadHeaderAt(dev, offset) ==
    IF offset \in DOMAIN dev.hdr THEN dev.hdr[offset] ELSE BlankHeader

(***************************************************************************)
(* luks2_read_header: ret, the header copied out, the offsets read.        *)
(***************************************************************************)
luks2_read_header_tie(in) ==
    LET dev == ReadSource(in)
        primary == ReadHeaderAt(dev, 0)
        off2 == grub_be_to_cpu(primary.hdr_size)
        secondary == ReadHeaderAt(dev, off2)
        fail(e, m, reads) == [ret |-> e, msg |-> m, out |-> BlankHeader,
                              copy |-> "none", reads |-> reads]
    IN  IF ~grub_read_ok(dev, 0, SizeofHeader)
        THEN fail(GRUB_ERR_READ_ERROR, "read", <<0>>)
        ELSE IF primary.magic # LUKS_MAGIC_1ST \/ grub_be_to_cpu(primary.version) # 2
        THEN fail(GRUB_ERR_BAD_SIGNATURE, "Bad primary signature", <<0>>)
        ELSE IF ~grub_read_ok(dev, off2, SizeofHeader)
        THEN fail(GRUB_ERR_READ_ERROR, "read", <<0, off2>>)
        ELSE IF secondary.magic # LUKS_MAGIC_2ND \/ grub_be_to_cpu(secondary.version) # 2
        THEN fail(GRUB_ERR_BAD_SIGNATURE, "Bad secondary signature", <<0, off2>>)
        ELSE IF grub_be_to_cpu(primary.seqid) <= grub_be_to_cpu(secondary.seqid)
        THEN [ret |-> GRUB_ERR_NONE, msg |-> "", out |-> secondary,
              copy |-> "secondary", reads |-> <<0, off2>>]
        ELSE [ret |-> GRUB_ERR_NONE, msg |-> "", out |-> primary,
              copy |-> "primary", reads |-> <<0, off2>>]

luks2_read_header(in) ==
    LET dev == ReadSource(in)
        primary == ReadHeaderAt(dev, 0)
        off2 == grub_be_to_cpu(primary.hdr_size)
        secondary == ReadHeaderAt(dev, off2)
        fail(e, m, reads) == [ret |-> e, msg |-> m, out |-> BlankHeader,
                              copy |-> "none", reads |-> reads]
    IN  IF ~grub_read_ok(dev, 0, SizeofHeader)
        THEN fail(GRUB_ERR_READ_ERROR, "read", <<0>>)
        ELSE IF primary.magic # LUKS_MAGIC_1ST \/ grub_be_to_cpu(primary.version) # 2
        THEN fail(GRUB_ERR_BAD_SIGNATURE, "Bad primary signature", <<0>>)
        ELSE IF ~grub_read_ok(dev, off2, SizeofHeader)
        THEN fail(GRUB_ERR_READ_ERROR, "read", <<0, off2>>)
        ELSE IF secondary.magic # LUKS_MAGIC_2ND \/ grub_be_to_cpu(secondary.version) # 2
        THEN fail(GRUB_ERR_BAD_SIGNATURE, "Bad secondary signature", <<0, off2>>)
        ELSE IF grub_be_to_cpu(primary.seqid) < grub_be_to_cpu(secondary.seqid)
        THEN [ret |-> GRUB_ERR_NONE, msg |-> "", out |-> secondary,
              copy |-> "secondary", reads |-> <<0, off2>>]
        ELSE [ret |-> GRUB_ERR_NONE, msg |-> "", out |-> primary,
              copy |-> "primary", reads |-> <<0, off2>>]

(***************************************************************************)
(* Strings are sequences of one-character strings.  Decimal strings are    *)
(* converted as grub_strtoull / grub_json_getuint64 convert them.          *)
(***************************************************************************)
Digits == <<"0", "1", "2", "3", "4", "5", "6", "7", "8", "9">>

IsDigit(c) == \E d \in 1..10 : Digits[d] = c

DigitVal(c) == (CHOOSE d \in 1..10 : Digits[d] = c) - 1

\* The longest prefix of s made of digits.
RECURSIVE DigitPrefix(_)
DigitPrefix(s) ==
    IF s = <<>> \/ ~IsDigit(Head(s)) THEN <<>>
    ELSE <<Head(s)>> \o DigitPrefix(Tail(s))

RECURSIVE DecimalValue(_)
DecimalValue(s) ==
    IF s = <<>> THEN 0
    ELSE 10 * DecimalValue(SubSeq(s, 1, Len(s) - 1)) + DigitVal(s[Len(s)])

\* grub_strtoull (str, NULL, 10): the value of the leading digits.
grub_strtoull(s) == DecimalValue(DigitPrefix(s))

\* grub_json_getuint64 on a string value: fails unless all of it is a number.
json_uint64_ok(s) == s # <<>> /\ DigitPrefix(s) = s

\* grub_memchr (s, '-', grub_strlen (s)): the position of the first '-', 0 if none.
FirstDash(s) ==
    IF \E n \in 1..Len(s) : s[n] = "-"
    THEN CHOOSE n \in 1..Len(s) : s[n] = "-" /\ \A m \in 1..(n - 1) : s[m] # "-"
    ELSE 0

\* The two halves around the '-' at position n.
CipherOf(s, n) == SubSeq(s, 1, n - 1)
ModeOf(s, n) == SubSeq(s, n + 1, Len(s))

\* grub_strcmp (a, b) == 0
StrEq(a, b) == a = b

(***************************************************************************)
(* The expression (1 << bit) of luks2_parse_digest and luks2_get_keyslot:  *)
(* 1 is an int, so the shift is done in 32 bits and the int result is      *)
(* sign-extended when it meets a grub_uint64_t.  A 64-bit value is the set *)
(* of its set bits.  A shift by 32 or more is undefined: the builds either *)
(* use the count modulo 32 ("mask5") or yield 0 ("zero").                  *)
(***************************************************************************)
ShiftBuilds == {"mask5", "zero"}

Shl1(build, bit) ==
    LET narrow(b) == IF b = 31 THEN 31..63 ELSE {b}
    IN  IF bit < 32 THEN narrow(bit)
        ELSE IF build = "mask5" THEN narrow(bit % 32)
        ELSE {}

(***************************************************************************)
(* JSON values.  An object is a record whose field "has" names the keys    *)
(* that are present with the type the getter asks for; grub_json_get* on   *)
(* any other key fails.  An object whose keys are stringified integers     *)
(* (keyslots, digests, segments) is the sequence of its (key, obj) pairs.  *)
(***************************************************************************)
json_has(obj, name) == name \in obj.has

Partial == [partial |-> TRUE]

(***************************************************************************)
(* The primitives luks2.c consumes.  Their code is outside this file; they *)
(* follow their contracts: a primitive fails on an input it cannot serve   *)
(* and is otherwise a function of its arguments.                           *)
(***************************************************************************)
\* What grub_crypto_gcry_error makes of a primitive's error code.
CryptoError == "CryptoError"

\* Key material that was never written or was wiped.
Zeroed == [zero |-> TRUE]
Garbage == [garbage |-> TRUE]

H_sha256 == <<"s", "h", "a", "2", "5", "6">>
grub_crypto_lookup_md_by_name(name) == name = H_sha256

\* A base64 string is the bytes it encodes, or no valid encoding at all.
base64_decode(str) == [ok |-> str.b64, out |-> str.bytes]

grub_crypto_pbkdf2(hash, P, Plen, S, c, dkLen) ==
    IF c <= 0 \/ dkLen <= 0 THEN [ok |-> FALSE, DK |-> Garbage]
    ELSE [ok |-> TRUE,
          DK |-> [kdf |-> "pbkdf2", hash |-> hash, P |-> P, Plen |-> Plen,
                  S |-> S, c |-> c, dkLen |-> dkLen]]

C_aes == <<"a", "e", "s">>
M_xts == <<"x", "t", "s", "-", "p">>
M_cbc == <<"c", "b", "c", "-", "e">>

\* grub_cryptodisk_setcipher: a fresh cipher handle, with no key yet.
grub_cryptodisk_setcipher(dev, ciphername, ciphermode) ==
    IF ciphername # C_aes THEN [ret |-> GRUB_ERR_FILE_NOT_FOUND, dev |-> dev]
    ELSE IF ciphermode \notin {M_xts, M_cbc} THEN [ret |-> GRUB_ERR_BAD_ARGUMENT, dev |-> dev]
    ELSE [ret |-> GRUB_ERR_NONE,
          dev |-> [dev EXCEPT !.cipher = ciphername, !.mode = ciphermode,
                              !.key = Zeroed, !.keysize = 0]]

grub_cryptodisk_setkey(dev, key, keysize) ==
    IF keysize \notin {16, 32, 64} THEN [ok |-> FALSE, dev |-> dev]
    ELSE [ok |-> TRUE, dev |-> [dev EXCEPT !.key = key, !.keysize = keysize]]

grub_malloc_ok(size) == size >= 0 /\ size <= 65536

\* grub_cryptodisk_decrypt of a whole key area with 512-byte sectors.
grub_cryptodisk_decrypt(dev, data, len) ==
    IF dev.cipher = <<>> \/ len % 512 # 0 THEN [ok |-> FALSE, data |-> data]
    ELSE IF data # Garbage /\ data.cipher = dev.cipher /\ data.mode = dev.mode
            /\ data.key = dev.key /\ data.keysize = dev.keysize
    THEN [ok |-> TRUE, data |-> data.plain]
    ELSE [ok |-> TRUE, data |-> Garbage]

\* The master keys of the volumes, as AF_split took them.
MasterKey(name, len) == [mk |-> name, len |-> len]

AF_split(hash, key, stripes) == [af |-> hash, key |-> key, stripes |-> stripes]

AF_merge(hash, src, blocksize, blocknumbers) ==
    IF blocknumbers < 1 THEN [ok |-> FALSE, dst |-> Garbage]
    ELSE IF blocksize = 0 THEN [ok |-> TRUE, dst |-> MasterKey("", 0)]
    ELSE IF src # Garbage /\ src.af = hash /\ src.stripes = blocknumbers
            /\ src.key.len = blocksize
    THEN [ok |-> TRUE, dst |-> src.key]
    ELSE [ok |-> TRUE, dst |-> Garbage]

LUKS2_KDF_TYPE_ARGON2I == "LUKS2_KDF_TYPE_ARGON2I"
LUKS2_KDF_TYPE_PBKDF2 == "LUKS2_KDF_TYPE_PBKDF2"

S_luks2 == <<"l", "u", "k", "s", "2">>
S_luks1 == <<"l", "u", "k", "s", "1">>
S_raw == <<"r", "a", "w">>
S_crypt == <<"c", "r", "y", "p", "t">>
S_pbkdf2 == <<"p", "b", "k", "d", "f", "2">>
S_argon2i == <<"a", "r", "g", "o", "n", "2", "i">>
S_argon2id == <<"a", "r", "g", "o", "n", "2", "i", "d">>
S_dynamic == <<"d", "y", "n", "a", "m", "i", "c">>


(***************************************************************************)
(* The JSON text of the volumes the model is run on, and their key areas. *)
(***************************************************************************)
SeqsUpTo(S, n) == UNION {[1..m -> S] : m \in 0..n}

\* Passphrases, as bytes.
P1 == <<112, 49>>
P2 == <<112, 50>>

Salt1 == [b64 |-> TRUE, bytes |-> <<7>>]
MK_A == MasterKey("A", 32)
MK_B == MasterKey("B", 64)

E_aes_xts == C_aes \o <<"-">> \o M_xts
E_aes_cbc == C_aes \o <<"-">> \o M_cbc
E_nodash == C_aes

\* A key area as cryptsetup wrote it: the AF-split master key, encrypted
\* under the area key derived from the passphrase P.
KeyArea(P, mk) ==
    [cipher |-> C_aes, mode |-> M_xts,
     key |-> grub_crypto_pbkdf2(H_sha256, P, Len(P), Salt1.bytes, 1000, 32).DK,
     keysize |-> 32, plain |-> AF_split(H_sha256, mk, 2)]

\* The digest cryptsetup stored for a master key.
DigestOf(mk) ==
    [b64 |-> TRUE,
     bytes |-> grub_crypto_pbkdf2(H_sha256, mk, mk.len, Salt1.bytes, 1000, 32).DK]

Areas == (32768 :> "A_p1_a") @@ (36864 :> "A_p1_b") @@ (40960 :> "A_p2_a")

AreaContent(h) ==
    CASE h = "A_p1_a" -> KeyArea(P1, MK_A)
      [] h = "A_p1_b" -> KeyArea(P1, MK_B)
      [] h = "A_p2_a" -> KeyArea(P2, MK_A)

\* Keyslot objects.
K_p1a ==
    [has |-> {"type", "key_size", "area", "kdf", "af"},
     type |-> S_luks2, key_size |-> 32, priority |-> 0,
     area |-> [has |-> {"type", "offset", "size", "encryption", "key_size"},
               type |-> S_raw, offset |-> 32768, size |-> 1024,
               encryption |-> E_aes_xts, key_size |-> 32],
     kdf |-> [has |-> {"type", "salt", "hash", "iterations"}, type |-> S_pbkdf2,
              salt |-> Salt1, hash |-> H_sha256, iterations |-> 1000],
     af |-> [has |-> {"type", "stripes", "hash"}, type |-> S_luks1, stripes |-> 2,
             hash |-> H_sha256]]

K_p1b == [K_p1a EXCEPT !.key_size = 64, !.area.offset = 36864]
K_p2a == [K_p1a EXCEPT !.area.offset = 40960]
K_prio0 == [K_p1a EXCEPT !.has = @ \cup {"priority"}, !.priority = 0]
K_argon == [K_p1a EXCEPT !.kdf.type = S_argon2id,
                         !.kdf.has = {"type", "salt", "time", "memory", "cpus"}]
K_badtype == [K_p1a EXCEPT !.type = S_luks1]
K_nodash == [K_p1a EXCEPT !.area.encryption = E_nodash]
K_ioerr == [K_p1a EXCEPT !.area.offset = 1048576]
K_oom == [K_p1a EXCEPT !.area.size = 1048576]
K_zero == [K_p1a EXCEPT !.key_size = 0]

KeyslotObjs == {"K_p1a", "K_p1b", "K_p2a", "K_prio0", "K_argon", "K_badtype", "K_nodash",
                "K_ioerr", "K_oom", "K_zero"}

\* Segment objects.
Seg0 == [has |-> {"type", "offset", "size", "encryption", "sector_size"},
         type |-> S_crypt, offset |-> 65536, size |-> S_dynamic,
         encryption |-> E_aes_xts, sector_size |-> 512]
Seg1 == [Seg0 EXCEPT !.offset = 131072, !.size = <<"2", "6", "2", "1", "4", "4">>,
                     !.encryption = E_aes_cbc, !.sector_size = 4096]
Seg1_nodash == [Seg1 EXCEPT !.encryption = E_nodash]
Seg1_nocipher == [Seg1 EXCEPT !.encryption = <<"x", "-">> \o M_cbc]

\* Digest objects.
JArray(elems) == [sized |-> TRUE, elems |-> elems]

Dig(keyslots, segments, mk) ==
    [has |-> {"type", "segments", "keyslots", "salt", "digest", "hash", "iterations"},
     type |-> S_pbkdf2, segments |-> JArray(segments), keyslots |-> JArray(keyslots),
     salt |-> Salt1, digest |-> DigestOf(mk), hash |-> H_sha256, iterations |-> 1000]

\* An object keyed by stringified integers: the keys are the positions, from 0.
Keyed(objs) == [n \in 1..Len(objs) |-> [key |-> <<Digits[n]>>, obj |-> objs[n]]]

AllSlots == [n \in 1..(MaxSlots + 1) |-> <<Digits[n]>>]
OddSlots == <<<<"1">>>>
EvenSlots == <<<<"0">>, <<"2">>>>

\* The text of the JSON objects; a grub_json_t is a handle into it.
JsonObject(h) ==
    CASE h = "K_p1a" -> K_p1a [] h = "K_p1b" -> K_p1b [] h = "K_p2a" -> K_p2a
      [] h = "K_prio0" -> K_prio0 [] h = "K_argon" -> K_argon
      [] h = "K_badtype" -> K_badtype [] h = "K_nodash" -> K_nodash
      [] h = "K_ioerr" -> K_ioerr [] h = "K_oom" -> K_oom [] h = "K_zero" -> K_zero
      [] h = "Seg0" -> Seg0 [] h = "Seg1" -> Seg1 [] h = "Seg1_nodash" -> Seg1_nodash
      [] h = "Seg1_nocipher" -> Seg1_nocipher
      [] h = "D_all_a" -> Dig(AllSlots, <<<<"0">>>>, MK_A)
      [] h = "D_even_a" -> Dig(EvenSlots, <<<<"0">>>>, MK_A)
      [] h = "D_odd_b" -> Dig(OddSlots, <<<<"1">>>>, MK_B)
      [] h = "D_even_0" -> Dig(EvenSlots, <<<<"0">>>>, MasterKey("", 0))
      [] h = "D_k0_s0" -> Dig(<<<<"0">>>>, <<<<"0">>>>, MK_A)
      [] h = "D_k1_s1" -> Dig(<<<<"1">>>>, <<<<"1">>>>, MK_A)
      [] h = "D_k32_s0" -> Dig(<<<<"3", "2">>>>, <<<<"0">>>>, MK_A)
      [] h = "D_k31_s32" -> Dig(<<<<"3", "1">>>>, <<<<"3", "2">>>>, MK_A)
      [] h = "D_badtype" -> [Dig(<<<<"0">>>>, <<<<"0">>>>, MK_A) EXCEPT !.type = S_crypt]
      [] h = "Seg_badtype" -> [Seg0 EXCEPT !.type = S_raw]

(***************************************************************************)
(* luks2_parse_keyslot                                                     *)
(***************************************************************************)
luks2_parse_keyslot(keyslot) ==
    LET bad == [ret |-> GRUB_ERR_BAD_ARGUMENT, out |-> Partial]
        area == keyslot.area
        kdf == keyslot.kdf
        af == keyslot.af
        priority == IF json_has(keyslot, "priority") THEN keyslot.priority ELSE 1
        base == [key_size |-> keyslot.key_size, priority |-> priority,
                 area |-> [encryption |-> area.encryption, offset |-> area.offset,
                           size |-> area.size, key_size |-> area.key_size],
                 af |-> [hash |-> af.hash, stripes |-> af.stripes]]
        afpart(k) ==
            IF ~json_has(keyslot, "af") \/ ~json_has(af, "type") THEN bad
            ELSE IF ~StrEq(af.type, S_luks1) THEN bad
            ELSE IF ~json_has(af, "stripes") \/ ~json_has(af, "hash") THEN bad
            ELSE [ret |-> GRUB_ERR_NONE, out |-> base @@ [kdf |-> k]]
    IN  IF ~json_has(keyslot, "type") THEN bad
        ELSE IF ~StrEq(keyslot.type, S_luks2) THEN bad
        ELSE IF ~json_has(keyslot, "key_size") THEN bad
        ELSE IF ~json_has(keyslot, "area") \/ ~json_has(area, "type") THEN bad
        ELSE IF ~StrEq(area.type, S_raw) THEN bad
        ELSE IF \/ ~json_has(area, "offset") \/ ~json_has(area, "size")
                \/ ~json_has(area, "encryption") \/ ~json_has(area, "key_size") THEN bad
        ELSE IF \/ ~json_has(keyslot, "kdf") \/ ~json_has(kdf, "type")
                \/ ~json_has(kdf, "salt") THEN bad
        ELSE IF StrEq(kdf.type, S_argon2i) \/ StrEq(kdf.type, S_argon2id)
        THEN IF \/ ~json_has(kdf, "time") \/ ~json_has(kdf, "memory")
                \/ ~json_has(kdf, "cpus") THEN bad
             ELSE afpart([type |-> LUKS2_KDF_TYPE_ARGON2I, salt |-> kdf.salt,
                          hash |-> <<>>, iterations |-> 0])
        ELSE IF StrEq(kdf.type, S_pbkdf2)
        THEN IF ~json_has(kdf, "hash") \/ ~json_has(kdf, "iterations") THEN bad
             ELSE afpart([type |-> LUKS2_KDF_TYPE_PBKDF2, salt |-> kdf.salt,
                          hash |-> kdf.hash, iterations |-> kdf.iterations])
        ELSE bad

(***************************************************************************)
(* luks2_parse_segment                                                     *)
(***************************************************************************)
luks2_parse_segment(segment) ==
    LET bad == [ret |-> GRUB_ERR_BAD_ARGUMENT, out |-> Partial]
    IN  IF ~json_has(segment, "type") THEN bad
        ELSE IF ~StrEq(segment.type, S_crypt) THEN bad
        ELSE IF \/ ~json_has(segment, "offset") \/ ~json_has(segment, "size")
                \/ ~json_has(segment, "encryption")
                \/ ~json_has(segment, "sector_size") THEN bad
        ELSE [ret |-> GRUB_ERR_NONE,
              out |-> [offset |-> segment.offset, size |-> segment.size,
                       encryption |-> segment.encryption,
                       sector_size |-> segment.sector_size]]

(***************************************************************************)
(* luks2_parse_digest.  An array is [sized, elems]: grub_json_getsize      *)
(* fails on a value that is no array; each element is a decimal string.    *)
(***************************************************************************)
\* The loop "out |= (1 << bit)" over the elements 1..n of an array.
RECURSIVE BitmapOf(_, _, _)
BitmapOf(build, elems, n) ==
    IF n = 0 THEN {}
    ELSE BitmapOf(build, elems, n - 1) \cup Shl1(build, grub_strtoull(elems[n]))

luks2_parse_digest(build, digest) ==
    LET bad == [ret |-> GRUB_ERR_BAD_ARGUMENT, out |-> Partial]
        segments == digest.segments
        keyslots == digest.keyslots
    IN  IF ~json_has(digest, "type") THEN bad
        ELSE IF ~StrEq(digest.type, S_pbkdf2) THEN bad
        ELSE IF \/ ~json_has(digest, "segments") \/ ~json_has(digest, "keyslots")
                \/ ~json_has(digest, "salt") \/ ~json_has(digest, "digest")
                \/ ~json_has(digest, "hash") \/ ~json_has(digest, "iterations") THEN bad
        ELSE IF ~segments.sized THEN bad
        ELSE IF \E n \in 1..Len(segments.elems) : ~json_uint64_ok(segments.elems[n]) THEN bad
        ELSE IF ~keyslots.sized THEN bad
        ELSE IF \E n \in 1..Len(keyslots.elems) : ~json_uint64_ok(keyslots.elems[n]) THEN bad
        ELSE [ret |-> GRUB_ERR_NONE,
              out |-> [keyslots |-> BitmapOf(build, keyslots.elems, Len(keyslots.elems)),
                       segments |-> BitmapOf(build, segments.elems, Len(segments.elems)),
                       salt |-> digest.salt, digest |-> digest.digest,
                       hash |-> digest.hash, iterations |-> digest.iterations]]

(***************************************************************************)
(* luks2_get_keyslot: the keyslot at position keyslot_idx (from 0), the    *)
(* first digest that references its key, the first segment that digest     *)
(* references.  k, d, s are the out-parameters as far as they were filled. *)
(***************************************************************************)
\* The digest loop from position i (from 1): where it stops, and how.
RECURSIVE ScanDigests(_, _, _, _)
ScanDigests(build, digests, keyslot_key, i) ==
    IF i > Len(digests) THEN [ret |-> GRUB_ERR_FILE_NOT_FOUND, d |-> Partial]
    ELSE LET p == luks2_parse_digest(build, JsonObject(digests[i].obj))
         IN  IF ~json_uint64_ok(digests[i].key) \/ p.ret # GRUB_ERR_NONE
             THEN [ret |-> GRUB_ERR_BAD_ARGUMENT, d |-> Partial]
             ELSE IF p.out.keyslots \cap Shl1(build, keyslot_key) # {}
             THEN [ret |-> GRUB_ERR_NONE, d |-> p.out]
             ELSE ScanDigests(build, digests, keyslot_key, i + 1)

\* The segment loop from position i (from 1).
RECURSIVE ScanSegments(_, _, _, _)
ScanSegments(build, segments, d, i) ==
    IF i > Len(segments) THEN [ret |-> GRUB_ERR_FILE_NOT_FOUND, s |-> Partial]
    ELSE LET p == luks2_parse_segment(JsonObject(segments[i].obj))
         IN  IF ~json_uint64_ok(segments[i].key) \/ p.ret # GRUB_ERR_NONE
             THEN [ret |-> GRUB_ERR_BAD_ARGUMENT, s |-> Partial]
             ELSE IF d.segments \cap Shl1(build, grub_strtoull(segments[i].key)) # {}
             THEN [ret |-> GRUB_ERR_NONE, s |-> p.out]
             ELSE ScanSegments(build, segments, d, i + 1)

luks2_get_keyslot(build, root, keyslot_idx) ==
    LET none == [ret |-> GRUB_ERR_BAD_ARGUMENT, k |-> Partial, d |-> Partial, s |-> Partial]
        entry == root.keyslots[keyslot_idx + 1]
        kp == luks2_parse_keyslot(JsonObject(entry.obj))
        ds == ScanDigests(build, root.digests, grub_strtoull(entry.key), 1)
        ss == ScanSegments(build, root.segments, ds.d, 1)
    IN  IF \/ ~json_has(root, "keyslots") \/ keyslot_idx + 1 > Len(root.keyslots)
           \/ ~json_uint64_ok(entry.key) \/ kp.ret # GRUB_ERR_NONE
        THEN none
        ELSE IF ~json_has(root, "digests")
        THEN [none EXCEPT !.k = kp.out]
        ELSE IF ds.ret # GRUB_ERR_NONE
        THEN [ret |-> ds.ret, k |-> kp.out, d |-> Partial, s |-> Partial]
        ELSE IF ~json_has(root, "segments")
        THEN [none EXCEPT !.k = kp.out, !.d = ds.d]
        ELSE IF ss.ret # GRUB_ERR_NONE
        THEN [ret |-> ss.ret, k |-> kp.out, d |-> ds.d, s |-> Partial]
        ELSE [ret |-> GRUB_ERR_NONE, k |-> kp.out, d |-> ds.d, s |-> ss.s]

(***************************************************************************)
(* luks2_verify_key                                                        *)
(***************************************************************************)
luks2_verify_key(d, candidate_key, candidate_key_len) ==
    LET digest == base64_decode(d.digest)
        salt == base64_decode(d.salt)
        kd == grub_crypto_pbkdf2(d.hash, candidate_key, candidate_key_len,
                                 salt.out, d.iterations, digest.out.dkLen)
    IN  IF ~digest.ok THEN GRUB_ERR_BAD_ARGUMENT
        ELSE IF ~salt.ok THEN GRUB_ERR_BAD_ARGUMENT
        ELSE IF ~grub_crypto_lookup_md_by_name(d.hash) THEN GRUB_ERR_FILE_NOT_FOUND
        ELSE IF ~kd.ok THEN CryptoError
        ELSE IF kd.DK # digest.out THEN GRUB_ERR_ACCESS_DENIED
        ELSE GRUB_ERR_NONE

(***************************************************************************)
(* luks2_decrypt_key.  dev is the crypto-disk as the call leaves it,       *)
(* area_key and split_key are those buffers as they are when the function  *)
(* returns (split_key: when it is freed), ops the primitives it reached.   *)
(***************************************************************************)
Unwritten == [unwritten |-> TRUE]

\* The key area stored at an offset of the device or header file.
ReadAreaAt(dev, offset) ==
    IF offset \in DOMAIN dev.area THEN AreaContent(dev.area[offset]) ELSE Garbage

luks2_decrypt_key(out_key, in, dev, k, passphrase, passphraselen) ==
    LET salt == base64_decode(k.kdf.salt)
        kd == grub_crypto_pbkdf2(k.kdf.hash, passphrase, passphraselen, salt.out,
                                 k.kdf.iterations, k.area.key_size)
        area_key == kd.DK
        cipher == k.area.encryption
        p == FirstDash(cipher)
        sc == grub_cryptodisk_setcipher(dev, CipherOf(cipher, p), ModeOf(cipher, p))
        sk == grub_cryptodisk_setkey(sc.dev, area_key, k.area.key_size)
        src == ReadSource(in)
        rd == ReadAreaAt(src, k.area.offset)
        dec == grub_cryptodisk_decrypt(sk.dev, rd, k.area.size)
        mrg == AF_merge(k.af.hash, dec.data, k.key_size, k.af.stripes)
        res(ret, d, key, ak, sp, st, ops) ==
            [ret |-> ret, dev |-> d, out_key |-> key, area_key |-> ak,
             split_key |-> sp, split_state |-> st, ops |-> ops]
    IN  IF ~salt.ok
        THEN res(GRUB_ERR_BAD_ARGUMENT, dev, out_key, Unwritten, Unwritten, "none", <<>>)
        ELSE IF k.kdf.type = LUKS2_KDF_TYPE_ARGON2I
        THEN res(GRUB_ERR_BAD_ARGUMENT, dev, out_key, Unwritten, Unwritten, "none", <<>>)
        ELSE IF ~grub_crypto_lookup_md_by_name(k.kdf.hash)
        THEN res(GRUB_ERR_FILE_NOT_FOUND, dev, out_key, Unwritten, Unwritten, "none", <<>>)
        ELSE IF ~kd.ok
        THEN res(CryptoError, dev, out_key, Unwritten, Unwritten, "none", <<"pbkdf2">>)
        ELSE IF p = 0
        THEN res(GRUB_ERR_BAD_ARGUMENT, dev, out_key, area_key, Unwritten, "none",
                 <<"pbkdf2">>)
        ELSE IF sc.ret # GRUB_ERR_NONE
        THEN res(sc.ret, sc.dev, out_key, area_key, Unwritten, "none",
                 <<"pbkdf2", "setcipher">>)
        ELSE IF ~sk.ok
        THEN res(CryptoError, sk.dev, out_key, area_key, Unwritten, "none",
                 <<"pbkdf2", "setcipher", "setkey">>)
        ELSE IF ~grub_malloc_ok(k.area.size)
        THEN res(GRUB_ERR_OUT_OF_MEMORY, sk.dev, out_key, area_key, Unwritten, "none",
                 <<"pbkdf2", "setcipher", "setkey", "malloc">>)
        ELSE IF ~grub_read_ok(src, k.area.offset, k.area.size)
        THEN res(GRUB_ERR_READ_ERROR, sk.dev, out_key, area_key, Unwritten, "freed",
                 <<"pbkdf2", "setcipher", "setkey", "malloc", "read">>)
        ELSE IF ~dec.ok
        THEN res(CryptoError, sk.dev, out_key, area_key, rd, "freed",
                 <<"pbkdf2", "setcipher", "setkey", "malloc", "read", "decrypt">>)
        ELSE IF ~grub_crypto_lookup_md_by_name(k.af.hash)
        THEN res(GRUB_ERR_FILE_NOT_FOUND, sk.dev, out_key, area_key, dec.data, "freed",
                 <<"pbkdf2", "setcipher", "setkey", "malloc", "read", "decrypt">>)
        ELSE IF ~mrg.ok
        THEN res(CryptoError, sk.dev, out_key, area_key, dec.data, "freed",
                 <<"pbkdf2", "setcipher", "setkey", "malloc", "read", "decrypt",
                   "AF_merge">>)
        ELSE res(GRUB_ERR_NONE, sk.dev, mrg.dst, area_key, dec.data, "freed",
                 <<"pbkdf2", "setcipher", "setkey", "malloc", "read", "decrypt",
                   "AF_merge">>)

(***************************************************************************)
(* Arithmetic of the sector layout (luks2_recover_key, lines 663-674).     *)
(***************************************************************************)
RECURSIVE Pow2(_)
Pow2(n) == IF n <= 0 THEN 1 ELSE 2 * Pow2(n - 1)

\* sizeof (unsigned int) * 8 - __builtin_clz (x) - 1, for x > 0.
RECURSIVE Log2Floor(_)
Log2Floor(x) == IF x <= 1 THEN 0 ELSE 1 + Log2Floor(x \div 2)

ShiftRight(x, n) == x \div Pow2(n)

grub_disk_get_size(dev) == ShiftRight(dev.size, dev.log_sector_size)

SectorLayout(source, segment) ==
    LET offset_sectors == segment.offset \div segment.sector_size
        log_sector_size == Log2Floor(segment.sector_size)
    IN  [offset_sectors |-> offset_sectors,
         log_sector_size |-> log_sector_size,
         total_sectors |->
            IF StrEq(segment.size, S_dynamic)
            THEN ShiftRight(grub_disk_get_size(source),
                            log_sector_size - source.log_sector_size) - offset_sectors
            ELSE ShiftRight(grub_strtoull(segment.size), log_sector_size)]

(***************************************************************************)
(* grub_uuidcasecmp: a case-insensitive comparison of two UUID strings.    *)
(***************************************************************************)
grub_tolower(c) ==
    CASE c = "A" -> "a" [] c = "B" -> "b" [] c = "C" -> "c"
      [] c = "D" -> "d" [] c = "E" -> "e" [] c = "F" -> "f" [] OTHER -> c

grub_uuidcasecmp_eq(uuid1, uuid2) ==
    /\ Len(uuid1) = Len(uuid2)
    /\ \A n \in 1..Len(uuid1) : grub_tolower(uuid1[n]) = grub_tolower(uuid2[n])

(***************************************************************************)
(* luks2_scan: the crypto-disk it returns (alloc = FALSE: NULL) and the    *)
(* global error state it leaves.                                           *)
(***************************************************************************)
NullDisk == [alloc |-> FALSE]

\* grub_zalloc (sizeof (*cryptodisk))
ZeroedDisk ==
    [alloc |-> TRUE, uuid |-> <<>>, modname |-> "", cipher |-> <<>>, mode |-> <<>>,
     key |-> Zeroed, keysize |-> 0, offset_sectors |-> 0, log_sector_size |-> 0,
     total_sectors |-> 0]

luks2_scan_any_uuid(in, errno) ==
    LET h == luks2_read_header(in)
    IN  IF in.check_boot THEN [disk |-> NullDisk, errno |-> errno, rh |-> [called |-> FALSE]]
        ELSE IF h.ret # GRUB_ERR_NONE
        THEN [disk |-> NullDisk, errno |-> GRUB_ERR_NONE, rh |-> h @@ [called |-> TRUE]]
        ELSE IF ~in.scan_alloc_ok
        THEN [disk |-> NullDisk, errno |-> GRUB_ERR_OUT_OF_MEMORY,
              rh |-> h @@ [called |-> TRUE]]
        ELSE [disk |-> [ZeroedDisk EXCEPT !.uuid = h.out.uuid, !.modname = "luks2"],
              errno |-> errno, rh |-> h @@ [called |-> TRUE]]

luks2_scan(in, errno) ==
    LET h == luks2_read_header(in)
    IN  IF in.check_boot THEN [disk |-> NullDisk, errno |-> errno, rh |-> [called |-> FALSE]]
        ELSE IF h.ret # GRUB_ERR_NONE
        THEN [disk |-> NullDisk, errno |-> GRUB_ERR_NONE, rh |-> h @@ [called |-> TRUE]]
        ELSE IF in.check_uuid.present /\ ~grub_uuidcasecmp_eq(in.check_uuid.str, h.out.uuid)
        THEN [disk |-> NullDisk, errno |-> errno, rh |-> h @@ [called |-> TRUE]]
        ELSE IF ~in.scan_alloc_ok
        THEN [disk |-> NullDisk, errno |-> GRUB_ERR_OUT_OF_MEMORY,
              rh |-> h @@ [called |-> TRUE]]
        ELSE [disk |-> [ZeroedDisk EXCEPT !.uuid = h.out.uuid, !.modname = "luks2"],
              errno |-> errno, rh |-> h @@ [called |-> TRUE]]

(***************************************************************************)
(* The volumes and arguments the model is run on.                          *)
(***************************************************************************)
\* The digests and segments of a volume.
Layout1 == [digests |-> Keyed(<<"D_all_a">>), segments |-> Keyed(<<"Seg0", "Seg1">>)]
Layout2 == [digests |-> Keyed(<<"D_even_a", "D_odd_b">>),
            segments |-> Keyed(<<"Seg0", "Seg1">>)]
Layout3 == [digests |-> Keyed(<<"D_even_a", "D_odd_b">>),
            segments |-> Keyed(<<"Seg0", "Seg1_nodash">>)]
Layout4 == [digests |-> Keyed(<<"D_even_0", "D_odd_b">>),
            segments |-> Keyed(<<"Seg0", "Seg1_nocipher">>)]

Layouts == {Layout1, Layout2, Layout3, Layout4}

Root(objs, layout) ==
    [has |-> {"keyslots", "digests", "segments"}, keyslots |-> Keyed(objs),
     digests |-> layout.digests, segments |-> layout.segments]

\* The JSON area of a header: the bytes, as far as the code looks at them.
JsonArea(nul, valid, root) == [nul |-> nul, valid |-> valid, root |-> root]

BlankJson == JsonArea(TRUE, FALSE, Root(<<>>, Layout1))

Uuid1 == <<"a", "B", "-", "1">>
Uuid2 == <<"c", "D", "-", "2">>

Device(hdr, json) ==
    [size |-> 1048576, log_sector_size |-> 9, hdr |-> hdr, json |-> json, area |-> Areas]

BlankDevice == Device(<<>>, <<>>)

NoFile == [present |-> FALSE, dev |-> BlankDevice]

KeyFile(bytes) == [present |-> TRUE, bytes |-> bytes]
NoKeyFile == [present |-> FALSE, bytes |-> <<>>]
Typed(text) == [supplied |-> TRUE, text |-> text]
NotTyped == [supplied |-> FALSE, text |-> <<>>]
NoUuid == [present |-> FALSE, str |-> <<>>]
CheckUuid(str) == [present |-> TRUE, str |-> str]

\* One call: either the device holds the header or a detached file does.
Call(dev, detached, check_uuid, check_boot, alloc, key, typed, build) ==
    [source |-> IF detached THEN BlankDevice ELSE dev,
     hdr_file |-> IF detached THEN [present |-> TRUE, dev |-> dev] ELSE NoFile,
     check_uuid |-> check_uuid, check_boot |-> check_boot, scan_alloc_ok |-> alloc,
     key |-> key, typed |-> typed, build |-> build]

GoodPrimary == Header(LUKS_MAGIC_1ST, <<0, 2>>, <<64, 0>>, <<0, 1>>, Uuid1, <<0, 0>>)
GoodSecondary == Header(LUKS_MAGIC_2ND, <<0, 2>>, <<64, 0>>, <<0, 1>>, Uuid2, <<64, 0>>)

Bytes2 == {<<a, b>> : a \in 0..MaxByte, b \in 0..MaxByte}

\* Volumes whose two header copies vary; each copy has its own JSON area.
Primaries ==
    { [GoodPrimary EXCEPT !.magic = m, !.version = v, !.seqid = q, !.hdr_size = z] :
        m \in {LUKS_MAGIC_1ST, LUKS_MAGIC_2ND}, v \in {<<0, 2>>, <<2, 0>>, <<0, 1>>},
        q \in Bytes2, z \in {<<64, 0>>, <<0, 0>>, <<255, 255>>} }

Secondaries ==
    { [GoodSecondary EXCEPT !.magic = m, !.version = v, !.seqid = q] :
        m \in {LUKS_MAGIC_1ST, LUKS_MAGIC_2ND}, v \in {<<0, 2>>, <<2, 0>>, <<0, 1>>},
        q \in Bytes2 }

HeaderPairs ==
    (Primaries \X {GoodSecondary, [GoodSecondary EXCEPT !.magic = LUKS_MAGIC_1ST]})
    \cup ({[GoodPrimary EXCEPT !.seqid = q] : q \in Bytes2} \X Secondaries)

HeaderVolumes ==
    { Device((0 :> ps[1]) @@ (16384 :> ps[2]),
             (4096 :> JsonArea(TRUE, TRUE, Root(<<"K_p1a">>, Layout1)))
             @@ (20480 :> JsonArea(TRUE, TRUE, Root(<<"K_p2a">>, Layout1)))) :
        ps \in HeaderPairs }

\* Keyslot lists: every pair of catalogue slots, and every list up to
\* MaxSlots of the slots that open, mismatch, are ignored or are Argon2.
CoreSlots == {"K_p1a", "K_p1b", "K_p2a", "K_prio0", "K_argon"}

SlotLists ==
    {<<>>} \cup {<<a>> : a \in KeyslotObjs} \cup {<<a, b>> : a, b \in KeyslotObjs}
    \cup SeqsUpTo(CoreSlots, MaxSlots)

\* Volumes with two good header copies whose keyslots vary.
SlotVolumes(layouts) ==
    { Device((0 :> GoodPrimary) @@ (16384 :> GoodSecondary),
             (4096 :> JsonArea(TRUE, TRUE, Root(objs, l)))) :
        objs \in SlotLists, l \in layouts }

\* Volumes whose JSON area or header sizes are off.
JsonVolumes ==
    { Device((0 :> [GoodPrimary EXCEPT !.hdr_size = z]) @@ (g :> GoodSecondary),
             (4096 :> JsonArea(nul, valid, [Root(<<"K_p1a">>, l) EXCEPT !.has = has]))) :
        nul \in BOOLEAN, valid \in BOOLEAN, l \in Layouts,
        has \in {{"keyslots", "digests", "segments"}, {"digests", "segments"},
                 {"keyslots", "segments"}},
        z \in {<<64, 0>>}, g \in {16384} }
    \cup
    { Device((0 :> [GoodPrimary EXCEPT !.hdr_size = <<8, 0>>]) @@ (2048 :> GoodSecondary),
             <<>>) }
    \cup
    { [Device((0 :> GoodPrimary) @@ (16384 :> [GoodSecondary EXCEPT !.seqid = <<0, 2>>]),
              (20480 :> JsonArea(TRUE, TRUE, Root(<<"K_p1a">>, l)))) EXCEPT !.size = sz] :
        l \in Layouts, sz \in {20480, 1048576} }

Calls ==
    { Call(dev, detached, NoUuid, FALSE, TRUE, KeyFile(P1), NotTyped, "mask5") :
        dev \in HeaderVolumes, detached \in BOOLEAN }
    \cup
    { Call(dev, FALSE, u, b, a, NoKeyFile, Typed(P1), build) :
        dev \in { Device((0 :> p) @@ (16384 :> GoodSecondary), <<>>) :
                    p \in {GoodPrimary, [GoodPrimary EXCEPT !.magic = LUKS_MAGIC_2ND]} },
        u \in {NoUuid, CheckUuid(<<"A", "b", "-", "1">>), CheckUuid(Uuid2),
               CheckUuid(<<"a", "B", "1">>)},
        b \in BOOLEAN, a \in BOOLEAN, build \in ShiftBuilds }
    \cup
    { Call(dev, FALSE, NoUuid, FALSE, TRUE, KeyFile(P1), NotTyped, "mask5") :
        dev \in SlotVolumes(Layouts) }
    \cup
    { Call(dev, FALSE, NoUuid, FALSE, TRUE, NoKeyFile, Typed(P2), "zero") :
        dev \in SlotVolumes({Layout1}) }
    \cup
    { Call(dev, FALSE, NoUuid, FALSE, TRUE, NoKeyFile, Typed(P1), "zero") :
        dev \in SlotVolumes({Layout2}) }
    \cup
    { Call(dev, detached, NoUuid, FALSE, TRUE, k.key, k.typed, "mask5") :
        dev \in JsonVolumes, detached \in BOOLEAN,
        k \in { [key |-> KeyFile(P1), typed |-> NotTyped],
                [key |-> NoKeyFile, typed |-> NotTyped],
                [key |-> NoKeyFile, typed |-> Typed(P1)] } }

(***************************************************************************)
(* The state after construction: luks2_scan is about to be called.         *)
(***************************************************************************)
InitLoc ==
    [ret |-> GRUB_ERR_NONE, header |-> BlankHeader, json_header |-> "null",
     json |-> "null", root |-> Partial, passphrase |-> <<>>, passphrase_len |-> 0,
     size |-> 0, i |-> 0, keyslot |-> Partial, digest |-> Partial, segment |-> Partial,
     candidate_key |-> Unwritten, candidate_key_len |-> 0, opened |-> -1,
     exhausted |-> FALSE, installed |-> FALSE]

InitBufs ==
    [interactive_passphrase |-> <<>>, area_key |-> Unwritten, split_key |-> Unwritten,
     split_state |-> "none"]

NoPrev == [set |-> FALSE]

Init ==
    /\ input \in Calls
    /\ pc = "scan"
    /\ grub_errno = GRUB_ERR_NONE
    /\ grub_errmsg = ""
    /\ crypt = NullDisk
    /\ rh = [called |-> FALSE]
    /\ loc = InitLoc
    /\ bufs = InitBufs
    /\ trace = <<>>
    /\ prev = NoPrev

(***************************************************************************)
(* luks2_scan (lines 367-395).  The cryptodisk layer calls recover_key on  *)
(* the disk that scan returned.                                            *)
(***************************************************************************)
Scan ==
    /\ pc = "scan"
    /\ LET r == luks2_scan(input, grub_errno)
       IN  /\ crypt' = r.disk
           /\ grub_errno' = r.errno
           /\ rh' = r.rh
           /\ pc' = IF r.disk.alloc THEN "recover_key" ELSE "no_disk"
    /\ UNCHANGED <<input, grub_errmsg, loc, bufs, trace, prev>>

(***************************************************************************)
(* luks2_recover_key, lines 574-576: read the header.                      *)
(***************************************************************************)
RK_ReadHeader ==
    /\ pc = "recover_key"
    /\ LET h == luks2_read_header(input)
       IN  /\ rh' = h @@ [called |-> TRUE]
           /\ loc' = [loc EXCEPT !.ret = h.ret, !.header = h.out]
           /\ pc' = IF h.ret # GRUB_ERR_NONE THEN "done" ELSE "read_json"
           /\ grub_errno' = IF h.ret # GRUB_ERR_NONE THEN h.ret ELSE grub_errno
           /\ grub_errmsg' = IF h.ret # GRUB_ERR_NONE THEN h.msg ELSE grub_errmsg
    /\ UNCHANGED <<input, crypt, bufs, trace, prev>>

(***************************************************************************)
(* Lines 578-607: allocate the JSON buffer, read the JSON area, look for   *)
(* its NUL terminator, parse it.                                           *)
(***************************************************************************)
JsonOffset(header) == grub_be_to_cpu(header.hdr_offset) + SizeofHeader
JsonSize(header) == grub_be_to_cpu(header.hdr_size) - SizeofHeader

ReadJsonAt(dev, offset) ==
    IF offset \in DOMAIN dev.json THEN dev.json[offset] ELSE BlankJson

ReadJson(in, l) ==
    LET dev == ReadSource(in)
        area == ReadJsonAt(dev, JsonOffset(l.header))
    IN  IF ~grub_malloc_ok(JsonSize(l.header))
        THEN [pc |-> "done", errno |-> GRUB_ERR_OUT_OF_MEMORY, msg |-> "out of memory",
              loc |-> [l EXCEPT !.ret = GRUB_ERR_OUT_OF_MEMORY]]
        ELSE IF ~grub_read_ok(dev, JsonOffset(l.header), JsonSize(l.header))
        THEN [pc |-> "err", errno |-> GRUB_ERR_READ_ERROR, msg |-> "read",
              loc |-> [l EXCEPT !.ret = GRUB_ERR_READ_ERROR, !.json_header = "alloc"]]
        ELSE IF ~area.nul
        THEN [pc |-> "err", errno |-> GRUB_ERR_NONE, msg |-> "",
              loc |-> [l EXCEPT !.json_header = "alloc"]]
        ELSE IF ~area.valid
        THEN [pc |-> "err", errno |-> GRUB_ERR_BAD_ARGUMENT,
              msg |-> "Invalid LUKS2 JSON header",
              loc |-> [l EXCEPT !.ret = GRUB_ERR_BAD_ARGUMENT, !.json_header = "alloc"]]
        ELSE [pc |-> "passphrase", errno |-> GRUB_ERR_NONE, msg |-> "",
              loc |-> [l EXCEPT !.ret = GRUB_ERR_NONE, !.json_header = "alloc",
                                !.json = "parsed", !.root = area.root]]

RK_ReadJson ==
    /\ pc = "read_json"
    /\ LET r == ReadJson(input, loc)
       IN  /\ loc' = r.loc
           /\ pc' = r.pc
           /\ grub_errno' = IF r.errno # GRUB_ERR_NONE THEN r.errno ELSE grub_errno
           /\ grub_errmsg' = IF r.errno # GRUB_ERR_NONE THEN r.msg ELSE grub_errmsg
    /\ UNCHANGED <<input, crypt, rh, bufs, trace, prev>>

(***************************************************************************)
(* Lines 609-630: the passphrase is the key file's bytes, or is typed.     *)
(***************************************************************************)
RK_Passphrase ==
    /\ pc = "passphrase"
    /\ IF input.key.present
       THEN /\ loc' = [loc EXCEPT !.passphrase = input.key.bytes,
                                  !.passphrase_len = Len(input.key.bytes)]
            /\ pc' = "keyslots"
            /\ UNCHANGED <<bufs, grub_errno, grub_errmsg>>
       ELSE IF ~input.typed.supplied
       THEN /\ loc' = [loc EXCEPT !.ret = GRUB_ERR_BAD_ARGUMENT]
            /\ grub_errno' = GRUB_ERR_BAD_ARGUMENT
            /\ grub_errmsg' = "Passphrase not supplied"
            /\ pc' = "err"
            /\ UNCHANGED bufs
       ELSE /\ bufs' = [bufs EXCEPT !.interactive_passphrase = input.typed.text]
            /\ loc' = [loc EXCEPT !.passphrase = input.typed.text,
                                  !.passphrase_len = Len(input.typed.text)]
            /\ pc' = "keyslots"
            /\ UNCHANGED <<grub_errno, grub_errmsg>>
    /\ UNCHANGED <<input, crypt, rh, trace, prev>>

(***************************************************************************)
(* Lines 632-637: the number of keyslots.                                  *)
(***************************************************************************)
RK_Keyslots ==
    /\ pc = "keyslots"
    /\ IF ~json_has(loc.root, "keyslots")
       THEN /\ loc' = [loc EXCEPT !.ret = GRUB_ERR_BAD_ARGUMENT]
            /\ grub_errno' = GRUB_ERR_BAD_ARGUMENT
            /\ grub_errmsg' = "Could not get keyslots"
            /\ pc' = "err"
       ELSE /\ loc' = [loc EXCEPT !.size = Len(loc.root.keyslots), !.i = 0]
            /\ pc' = "loop"
            /\ UNCHANGED <<grub_errno, grub_errmsg>>
    /\ UNCHANGED <<input, crypt, rh, bufs, trace, prev>>

(***************************************************************************)
(* Lines 640-658: resolve keyslot i; skip it when that fails or when its   *)
(* priority is 0.                                                          *)
(***************************************************************************)
SkipSlot_any_priority(l, g) ==
    g.ret # GRUB_ERR_NONE

SkipSlot(l, g) ==
    g.ret # GRUB_ERR_NONE \/ g.k.priority = 0

RK_GetKeyslot ==
    /\ pc = "loop"
    /\ loc.i < loc.size
    /\ LET g == luks2_get_keyslot(input.build, loc.root, loc.i)
           l == [loc EXCEPT !.ret = g.ret, !.keyslot = g.k, !.digest = g.d,
                            !.segment = g.s]
       IN  /\ trace' = Append(trace, <<"get_keyslot", loc.i>>)
           /\ IF SkipSlot(l, g)
              THEN /\ loc' = [l EXCEPT !.i = loc.i + 1]
                   /\ pc' = "loop"
              ELSE /\ loc' = l
                   /\ pc' = "setup"
           /\ grub_errno' = IF g.ret # GRUB_ERR_NONE THEN g.ret ELSE grub_errno
           /\ grub_errmsg' = IF g.ret # GRUB_ERR_NONE THEN "luks2_get_keyslot" ELSE grub_errmsg
    /\ UNCHANGED <<input, crypt, rh, bufs, prev>>

(***************************************************************************)
(* Lines 662-674: set up the disk according to the keyslot's segment.      *)
(***************************************************************************)
RK_SetupDisk ==
    /\ pc = "setup"
    /\ LET lay == SectorLayout(input.source, loc.segment)
       IN  crypt' = [crypt EXCEPT !.offset_sectors = lay.offset_sectors,
                                  !.log_sector_size = lay.log_sector_size,
                                  !.total_sectors = lay.total_sectors]
    /\ trace' = Append(trace, <<"layout", loc.i>>)
    /\ pc' = "decrypt"
    /\ UNCHANGED <<input, grub_errno, grub_errmsg, rh, loc, bufs, prev>>

(***************************************************************************)
(* Lines 676-682: luks2_decrypt_key; on failure go on with the next slot.  *)
(***************************************************************************)
RECURSIVE Tag(_, _)
Tag(ops, i) == IF ops = <<>> THEN <<>> ELSE <<<<Head(ops), i>>>> \o Tag(Tail(ops), i)

RK_DecryptKey_abort ==
    /\ pc = "decrypt"
    /\ LET r == luks2_decrypt_key(loc.candidate_key, input, crypt, loc.keyslot,
                                  loc.passphrase, loc.passphrase_len)
       IN  /\ crypt' = r.dev
           /\ bufs' = [bufs EXCEPT !.area_key = r.area_key, !.split_key = r.split_key,
                                   !.split_state = r.split_state]
           /\ trace' = trace \o Tag(<<"decrypt_key">> \o r.ops, loc.i)
           /\ loc' = [loc EXCEPT !.ret = r.ret,
                                 !.candidate_key = IF r.ret = GRUB_ERR_NONE THEN r.out_key
                                                   ELSE @]
           /\ pc' = IF r.ret # GRUB_ERR_NONE THEN "err" ELSE "verify"
           /\ grub_errno' = IF r.ret # GRUB_ERR_NONE THEN r.ret ELSE grub_errno
           /\ grub_errmsg' = IF r.ret # GRUB_ERR_NONE THEN "luks2_decrypt_key" ELSE grub_errmsg
    /\ UNCHANGED <<input, rh, prev>>

RK_DecryptKey ==
    /\ pc = "decrypt"
    /\ LET r == luks2_decrypt_key(loc.candidate_key, input, crypt, loc.keyslot,
                                  loc.passphrase, loc.passphrase_len)
       IN  /\ crypt' = r.dev
           /\ bufs' = [bufs EXCEPT !.area_key = r.area_key, !.split_key = r.split_key,
                                   !.split_state = r.split_state]
           /\ trace' = trace \o Tag(<<"decrypt_key">> \o r.ops, loc.i)
           /\ IF r.ret # GRUB_ERR_NONE
              THEN /\ loc' = [loc EXCEPT !.ret = r.ret, !.i = loc.i + 1]
                   /\ pc' = "loop"
              ELSE /\ loc' = [loc EXCEPT !.ret = r.ret, !.candidate_key = r.out_key]
                   /\ pc' = "verify"
           /\ grub_errno' =
                IF r.ret = GRUB_ERR_READ_ERROR THEN GRUB_ERR_IO
                ELSE IF r.ret # GRUB_ERR_NONE THEN r.ret
                ELSE IF Len(r.ops) >= 4 THEN GRUB_ERR_NONE
                ELSE grub_errno
           /\ grub_errmsg' = IF r.ret # GRUB_ERR_NONE THEN "luks2_decrypt_key" ELSE grub_errmsg
    /\ UNCHANGED <<input, rh, prev>>

(***************************************************************************)
(* Lines 684-698: luks2_verify_key; the first key that verifies ends the   *)
(* loop.                                                                   *)
(***************************************************************************)
RK_VerifyKey_no_break ==
    /\ pc = "verify"
    /\ LET ret == luks2_verify_key(loc.digest, loc.candidate_key, loc.keyslot.key_size)
       IN  /\ trace' = IF ret = GRUB_ERR_NONE
                       THEN trace \o <<<<"verify_key", loc.i>>, <<"opened", loc.i>>>>
                       ELSE Append(trace, <<"verify_key", loc.i>>)
           /\ loc' = IF ret # GRUB_ERR_NONE
                     THEN [loc EXCEPT !.ret = ret, !.i = loc.i + 1]
                     ELSE [loc EXCEPT !.ret = ret, !.opened = loc.i, !.i = loc.i + 1,
                                      !.candidate_key_len = loc.keyslot.key_size]
           /\ pc' = "loop"
           /\ grub_errno' = IF ret # GRUB_ERR_NONE THEN ret ELSE grub_errno
           /\ grub_errmsg' = IF ret # GRUB_ERR_NONE THEN "luks2_verify_key" ELSE grub_errmsg
    /\ UNCHANGED <<input, crypt, rh, bufs, prev>>

RK_VerifyKey ==
    /\ pc = "verify"
    /\ LET ret == luks2_verify_key(loc.digest, loc.candidate_key, loc.keyslot.key_size)
       IN  /\ trace' = IF ret = GRUB_ERR_NONE
                       THEN trace \o <<<<"verify_key", loc.i>>, <<"opened", loc.i>>>>
                       ELSE Append(trace, <<"verify_key", loc.i>>)
           /\ IF ret # GRUB_ERR_NONE
              THEN /\ loc' = [loc EXCEPT !.ret = ret, !.i = loc.i + 1]
                   /\ pc' = "loop"
                   /\ grub_errno' = ret
                   /\ grub_errmsg' = "luks2_verify_key"
              ELSE /\ loc' = [loc EXCEPT !.ret = ret, !.opened = loc.i,
                                         !.candidate_key_len = loc.keyslot.key_size]
                   /\ pc' = "after_loop"
                   /\ UNCHANGED <<grub_errno, grub_errmsg>>
    /\ UNCHANGED <<input, crypt, rh, bufs, prev>>

\* Line 640: i == size ends the loop.
RK_LoopEnd ==
    /\ pc = "loop"
    /\ loc.i >= loc.size
    /\ loc' = [loc EXCEPT !.exhausted = TRUE]
    /\ pc' = "after_loop"
    /\ UNCHANGED <<input, grub_errno, grub_errmsg, crypt, rh, bufs, trace, prev>>

(***************************************************************************)
(* Lines 700-704: no key was recovered.                                    *)
(***************************************************************************)
RK_CheckKey ==
    /\ pc = "after_loop"
    /\ IF loc.candidate_key_len = 0
       THEN /\ loc' = [loc EXCEPT !.ret = GRUB_ERR_ACCESS_DENIED]
            /\ grub_errno' = GRUB_ERR_ACCESS_DENIED
            /\ grub_errmsg' = "Invalid passphrase"
            /\ pc' = "err"
       ELSE /\ pc' = "set_cipher"
            /\ UNCHANGED <<loc, grub_errno, grub_errmsg>>
    /\ UNCHANGED <<input, crypt, rh, bufs, trace, prev>>

(***************************************************************************)
(* Lines 706-715: set up the disk cipher from the segment's encryption.    *)
(***************************************************************************)
SplitAt(cipher) == FirstDash(cipher)

RK_SetCipher ==
    /\ pc = "set_cipher"
    /\ LET cipher == loc.segment.encryption
           ptr == SplitAt(cipher)
           sc == grub_cryptodisk_setcipher(crypt, CipherOf(cipher, ptr), ModeOf(cipher, ptr))
       IN  IF ptr = 0
           THEN /\ loc' = [loc EXCEPT !.ret = GRUB_ERR_BAD_ARGUMENT]
                /\ grub_errno' = GRUB_ERR_BAD_ARGUMENT
                /\ grub_errmsg' = "Invalid encryption"
                /\ pc' = "done"
                /\ UNCHANGED <<crypt, trace>>
           ELSE /\ loc' = [loc EXCEPT !.ret = sc.ret]
                /\ crypt' = sc.dev
                /\ trace' = Append(trace, <<"disk_setcipher", loc.opened>>)
                /\ grub_errno' = IF sc.ret # GRUB_ERR_NONE THEN sc.ret ELSE grub_errno
                /\ grub_errmsg' = IF sc.ret # GRUB_ERR_NONE THEN "setcipher" ELSE grub_errmsg
                /\ pc' = IF sc.ret # GRUB_ERR_NONE THEN "err" ELSE "set_key"
    /\ UNCHANGED <<input, rh, bufs, prev>>

(***************************************************************************)
(* Lines 717-724: set the master key.                                      *)
(***************************************************************************)
RK_SetKey ==
    /\ pc = "set_key"
    /\ LET sk == grub_cryptodisk_setkey(crypt, loc.candidate_key, loc.candidate_key_len)
       IN  /\ crypt' = sk.dev
           /\ loc' = [loc EXCEPT !.ret = IF sk.ok THEN loc.ret ELSE CryptoError,
                                 !.installed = sk.ok]
           /\ grub_errno' = IF sk.ok THEN grub_errno ELSE CryptoError
           /\ grub_errmsg' = IF sk.ok THEN grub_errmsg ELSE "grub_cryptodisk_setkey failed"
    /\ trace' = Append(trace, <<"disk_setkey", loc.opened>>)
    /\ pc' = "err"
    /\ UNCHANGED <<input, rh, bufs, prev>>

(***************************************************************************)
(* Lines 726-729: the err label frees the JSON buffer and the JSON tree.   *)
(***************************************************************************)
RK_Cleanup ==
    /\ pc = "err"
    /\ loc' = [loc EXCEPT !.json_header = "freed",
                          !.json = IF loc.json = "parsed" THEN "freed" ELSE loc.json]
    /\ pc' = "done"
    /\ UNCHANGED <<input, grub_errno, grub_errmsg, crypt, rh, bufs, trace, prev>>

Next ==
    \/ Scan
    \/ RK_ReadHeader
    \/ RK_ReadJson
    \/ RK_Passphrase
    \/ RK_Keyslots
    \/ RK_GetKeyslot
    \/ RK_SetupDisk
    \/ RK_DecryptKey
    \/ RK_VerifyKey
    \/ RK_LoopEnd
    \/ RK_CheckKey
    \/ RK_SetCipher
    \/ RK_SetKey
    \/ RK_Cleanup

Spec == Init /\ [][Next]_vars

(***************************************************************************)
(* A second attempt on the same volume, with one priority-0 keyslot taken  *)
(* out of its JSON: the first attempt's outcome is kept in prev.           *)
(***************************************************************************)
RemoveAt(seq, n) == SubSeq(seq, 1, n - 1) \o SubSeq(seq, n + 1, Len(seq))

PriorityZero(entry) ==
    LET o == JsonObject(entry.obj) IN json_has(o, "priority") /\ o.priority = 0

WithoutSlot(in, offset, n) ==
    LET dev == ReadSource(in)
        less == [dev EXCEPT !.json[offset].root.keyslots = RemoveAt(@, n)]
    IN  IF in.hdr_file.present THEN [in EXCEPT !.hdr_file.dev = less]
        ELSE [in EXCEPT !.source = less]

Rerun ==
    /\ pc = "done"
    /\ ~prev.set
    /\ loc.json # "null"
    /\ \E n \in 1..Len(loc.root.keyslots) :
          /\ PriorityZero(loc.root.keyslots[n])
          /\ input' = WithoutSlot(input, JsonOffset(loc.header), n)
          /\ prev' = [set |-> TRUE, ret |-> loc.ret, crypt |-> crypt, slot |-> n - 1]
    /\ pc' = "recover_key"
    /\ crypt' = [ZeroedDisk EXCEPT !.uuid = crypt.uuid, !.modname = crypt.modname]
    /\ loc' = InitLoc
    /\ bufs' = InitBufs
    /\ trace' = <<>>
    /\ grub_errno' = GRUB_ERR_NONE
    /\ grub_errmsg' = ""
    /\ rh' = [called |-> FALSE]

NextRerun == Next \/ Rerun

SpecRerun == Init /\ [][NextRerun]_vars

(***************************************************************************)
(* luks2_parse_digest on its own, over digests whose reference arrays vary.*)
(***************************************************************************)
MaxRefs == 2

BitStrings == {<<"0">>, <<"1">>, <<"3", "0">>, <<"3", "1">>, <<"3", "2">>, <<"3", "3">>,
               <<"6", "3">>}

DigestInputs ==
    { [build |-> b, digest |-> Dig(ks, sg, MK_A)] :
        b \in ShiftBuilds, ks \in SeqsUpTo(BitStrings, MaxRefs),
        sg \in SeqsUpTo({<<"0">>, <<"3", "1">>, <<"4", "0">>}, 1) }

InitDigest ==
    /\ input \in DigestInputs
    /\ pc = "parse_digest"
    /\ grub_errno = GRUB_ERR_NONE
    /\ grub_errmsg = ""
    /\ crypt = NullDisk
    /\ rh = [called |-> FALSE]
    /\ loc = InitLoc
    /\ bufs = InitBufs
    /\ trace = <<>>
    /\ prev = NoPrev

ParseDigest ==
    /\ pc = "parse_digest"
    /\ LET r == luks2_parse_digest(input.build, input.digest)
       IN  loc' = [loc EXCEPT !.ret = r.ret, !.digest = r.out]
    /\ pc' = "parsed"
    /\ UNCHANGED <<input, grub_errno, grub_errmsg, crypt, rh, bufs, trace, prev>>

NextDigest == ParseDigest

SpecDigest == InitDigest /\ [][NextDigest]_vars

(***************************************************************************)
(* What the volume holds, read off the medium without the code.            *)
(***************************************************************************)
Be2(b) == 256 * b[1] + b[2]

VolPrimary == ReadHeaderAt(ReadSource(input), 0)
VolSecondary == ReadHeaderAt(ReadSource(input), Be2(VolPrimary.hdr_size))

PrimaryValid == VolPrimary.magic = LUKS_MAGIC_1ST /\ VolPrimary.version = <<0, 2>>
SecondaryValid ==
    /\ Be2(VolPrimary.hdr_size) + 4096 <= ReadSource(input).size
    /\ VolSecondary.magic = LUKS_MAGIC_2ND
    /\ VolSecondary.version = <<0, 2>>
SecondaryNewer == Be2(VolSecondary.seqid) > Be2(VolPrimary.seqid)
ChosenHeader == IF SecondaryNewer THEN VolSecondary ELSE VolPrimary

SameUuidIgnoringCase(a, b) ==
    /\ Len(a) = Len(b)
    /\ \A n \in 1..Len(a) :
          \/ a[n] = b[n]
          \/ {a[n], b[n]} \in {{"a", "A"}, {"b", "B"}, {"c", "C"}, {"d", "D"},
                               {"e", "E"}, {"f", "F"}}

(***************************************************************************)
(* What trying keyslot n (from 0) on its own comes to, with the passphrase *)
(* of this attempt.                                                        *)
(***************************************************************************)
SlotIndexes == 0..(Len(loc.root.keyslots) - 1)

\* The key_size the JSON gives keyslot n.
JsonKeySize(n) == JsonObject(loc.root.keyslots[n + 1].obj).key_size

SlotOutcome(n) ==
    LET g == luks2_get_keyslot(input.build, loc.root, n)
        r == luks2_decrypt_key(Unwritten, input, ZeroedDisk, g.k, loc.passphrase,
                               loc.passphrase_len)
        what == IF g.ret # GRUB_ERR_NONE THEN "unresolved"
                ELSE IF g.k.priority = 0 THEN "ignored"
                ELSE IF r.ret # GRUB_ERR_NONE THEN "underived"
                ELSE IF luks2_verify_key(g.d, r.out_key, g.k.key_size) # GRUB_ERR_NONE
                THEN "mismatch"
                ELSE "opens"
    IN  [what |-> what,
         argon2 |-> what = "underived" /\ g.k.kdf.type = LUKS2_KDF_TYPE_ARGON2I,
         key |-> IF what = "opens" THEN r.out_key ELSE Unwritten,
         key_size |-> IF what = "opens" THEN JsonKeySize(n) ELSE 0,
         segment |-> IF what = "opens" THEN g.s ELSE Partial]

Outcomes == [n \in SlotIndexes |-> SlotOutcome(n)]

OpenersOf(out) == {n \in DOMAIN out : out[n].what = "opens"}
Least(S) == CHOOSE n \in S : \A m \in S : n <= m
FailureBefore(out, first) ==
    \E n \in DOMAIN out : n < first /\ out[n].what \in {"unresolved", "underived", "mismatch"}

\* The trial loop has run to its end or to its break.
LoopOver == loc.exhausted \/ loc.opened # -1

\* The trial loop was entered and luks2_recover_key has returned.
TriedAndReturned == pc = "done" /\ trace # <<>>

\* The cipher setup and key installation after the loop go through for the
\* slot whose outcome is o.
InstallGoesThrough(o) ==
    LET enc == o.segment.encryption
        dash == FirstDash(enc)
    IN  /\ o.key_size # 0
        /\ dash # 0
        /\ grub_cryptodisk_setcipher(ZeroedDisk, CipherOf(enc, dash), ModeOf(enc, dash)).ret
             = GRUB_ERR_NONE
        /\ grub_cryptodisk_setkey(ZeroedDisk, Zeroed, o.key_size).ok

\* Every index below loc.i has been resolved, none from loc.i on was touched
\* while the loop is between slots.
LoopInOrder ==
    /\ \A a \in 1..(Len(trace) - 1) : trace[a][2] <= trace[a + 1][2]
    /\ pc = "loop" =>
          /\ \A n \in 0..(loc.i - 1) : \E k \in 1..Len(trace) : trace[k] = <<"get_keyslot", n>>
          /\ \A k \in 1..Len(trace) : trace[k][2] < loc.i

(***************************************************************************)
(* C1: luks2_read_header succeeds only when both copies are valid (magic   *)
(* LUKS_MAGIC_1ST resp. LUKS_MAGIC_2ND, version 2); it then copies out the *)
(* secondary iff its seqid is strictly greater, the primary otherwise,     *)
(* also on equal seqids.  With an invalid primary it fails with "Bad       *)
(* primary signature" and nothing but offset 0 was read.                   *)
(***************************************************************************)
C1_HeaderSelection ==
    rh.called =>
        /\ rh.ret = GRUB_ERR_NONE =>
              /\ PrimaryValid /\ SecondaryValid
              /\ rh.out = ChosenHeader
              /\ rh.copy = IF SecondaryNewer THEN "secondary" ELSE "primary"
        /\ ~PrimaryValid =>
              /\ rh.ret = GRUB_ERR_BAD_SIGNATURE
              /\ rh.msg = "Bad primary signature"
              /\ rh.reads = <<0>>

C1_Witness ==
    /\ rh.called /\ rh.ret = GRUB_ERR_NONE /\ rh.copy = "primary"
    /\ VolPrimary.seqid = VolSecondary.seqid

(***************************************************************************)
(* C2: keyslots are tried in ascending index order and the first one whose *)
(* candidate key verifies ends the loop: when the passphrase opens several *)
(* slots, the smallest index is the one reported as opened, its key_size   *)
(* is the length the master key is installed with, and nothing is done for *)
(* a slot with a larger index.                                             *)
(***************************************************************************)
C2_FirstSuccessWins ==
    /\ LoopInOrder
    /\ LoopOver =>
          LET out == Outcomes
              openers == OpenersOf(out)
              first == Least(openers)
          IN  /\ openers = {} <=> loc.opened = -1
              /\ openers # {} =>
                    /\ loc.opened = first
                    /\ loc.candidate_key_len = out[first].key_size
                    /\ \A k \in 1..Len(trace) : trace[k][2] <= first
                    /\ loc.installed => crypt.keysize = out[first].key_size

C2_Witness ==
    /\ pc = "done" /\ LoopOver /\ loc.installed
    /\ Cardinality(OpenersOf(Outcomes)) >= 2

(***************************************************************************)
(* C3: a keyslot whose priority is 0 is only resolved, never attempted     *)
(* (no sector layout, no derivation, no cipher or key, no verification),   *)
(* and the attempt ends with the same result and the same crypto-disk as   *)
(* the attempt on the volume without that keyslot.                         *)
(***************************************************************************)
C3_PriorityZeroSkipped ==
    /\ loc.json # "null" =>
          \A k \in 1..Len(trace) :
              PriorityZero(loc.root.keyslots[trace[k][2] + 1]) => trace[k][1] = "get_keyslot"
    /\ (pc = "done" /\ prev.set) => (loc.ret = prev.ret /\ crypt = prev.crypt)

C3_Witness ==
    /\ pc = "done" /\ prev.set /\ prev.slot = 0
    /\ loc.ret = GRUB_ERR_NONE /\ loc.installed

(***************************************************************************)
(* C4 as stated: after a per-slot failure (resolution, Argon2, derivation  *)
(* or decryption, digest mismatch) the loop goes on, and if a later slot   *)
(* passes verification luks2_recover_key returns success with that slot's  *)
(* key installed.                                                          *)
(***************************************************************************)
C4_LaterSlotUnlocks ==
    /\ LoopInOrder
    /\ TriedAndReturned =>
          LET out == Outcomes
              openers == OpenersOf(out)
              first == Least(openers)
          IN  (openers # {} /\ FailureBefore(out, first)) =>
                  /\ loc.ret = GRUB_ERR_NONE
                  /\ loc.installed
                  /\ crypt.key = out[first].key
                  /\ crypt.keysize = out[first].key_size

(***************************************************************************)
(* C4 amended: after a per-slot failure the loop goes on with the next     *)
(* index, and the first later slot that passes verification ends the loop  *)
(* as the opened slot; luks2_recover_key then returns success with that    *)
(* slot's key installed if the slot's key_size is not 0 and the cipher     *)
(* setup from its segment's encryption string and the key installation go  *)
(* through, and returns an error with no master key installed otherwise.   *)
(***************************************************************************)
C4_LaterSlotWins ==
    /\ LoopInOrder
    /\ TriedAndReturned =>
          LET out == Outcomes
              openers == OpenersOf(out)
              first == Least(openers)
          IN  (openers # {} /\ FailureBefore(out, first)) =>
                  /\ loc.opened = first
                  /\ \A n \in 0..first :
                        \E k \in 1..Len(trace) : trace[k] = <<"get_keyslot", n>>
                  /\ IF InstallGoesThrough(out[first])
                     THEN /\ loc.ret = GRUB_ERR_NONE
                          /\ loc.installed
                          /\ crypt.key = out[first].key
                          /\ crypt.keysize = out[first].key_size
                     ELSE /\ loc.ret # GRUB_ERR_NONE
                          /\ ~loc.installed

C4_Witness ==
    /\ TriedAndReturned
    /\ loc.ret = GRUB_ERR_NONE /\ loc.installed
    /\ loc.opened > 0
    /\ Outcomes[0].argon2

(***************************************************************************)
(* C5: when the trial loop runs out without a verified key,                *)
(* luks2_recover_key returns AccessDenied "Invalid passphrase" and no      *)
(* cipher or area key is left installed on the crypto-disk.                *)
(***************************************************************************)
C5_NoCipherLeft ==
    (pc = "done" /\ loc.exhausted /\ loc.opened = -1) =>
        /\ loc.ret = GRUB_ERR_ACCESS_DENIED
        /\ grub_errmsg = "Invalid passphrase"
        /\ crypt.cipher = <<>>
        /\ crypt.key = Zeroed

(***************************************************************************)
(* C6: when luks2_recover_key has returned, the interactive passphrase     *)
(* buffer, the area-key buffer and the split-key buffer hold no secret:    *)
(* each is all zero (or was never written).                                *)
(***************************************************************************)
C6_Zeroized ==
    pc = "done" =>
        /\ bufs.interactive_passphrase = <<>>
        /\ bufs.area_key \in {Zeroed, Unwritten}
        /\ bufs.split_key \in {Zeroed, Unwritten}

(***************************************************************************)
(* C7: for a digest whose keyslots and segments arrays list indices below  *)
(* 64, luks2_parse_digest yields masks in which bit v is set iff v is      *)
(* listed, for every v in 0..63.                                           *)
(***************************************************************************)
C7_BitmapExact ==
    (pc = "parsed" /\ loc.ret = GRUB_ERR_NONE) =>
        /\ loc.digest.keyslots =
             {grub_strtoull(input.digest.keyslots.elems[n]) :
                n \in 1..Len(input.digest.keyslots.elems)}
        /\ loc.digest.segments =
             {grub_strtoull(input.digest.segments.elems[n]) :
                n \in 1..Len(input.digest.segments.elems)}

WinnerState(o) ==
    LET enc == o.segment.encryption
        lay == SectorLayout(input.source, o.segment)
    IN  /\ crypt.cipher = CipherOf(enc, FirstDash(enc))
        /\ crypt.mode = ModeOf(enc, FirstDash(enc))
        /\ crypt.key = o.key
        /\ crypt.keysize = o.key_size
        /\ crypt.offset_sectors = lay.offset_sectors
        /\ crypt.log_sector_size = lay.log_sector_size
        /\ crypt.total_sectors = lay.total_sectors

(***************************************************************************)
(* C8: on a successful return of luks2_recover_key the crypto-disk holds   *)
(* the state of the slot that verified: cipher and mode are the halves of  *)
(* its segment's encryption string, the key is its candidate key with its  *)
(* key_size, the sector layout is the one computed from that segment.      *)
(***************************************************************************)
C8_WinnerStateOnly ==
    (pc = "done" /\ loc.ret = GRUB_ERR_NONE) =>
        /\ loc.json # "null"
        /\ LET out == Outcomes
               openers == OpenersOf(out)
           IN  openers # {} /\ WinnerState(out[Least(openers)])

(***************************************************************************)
(* C9: luks2_scan returns a crypto-disk iff check_boot is false, the       *)
(* header reads and validates, and check_uuid is absent or equals the      *)
(* header's uuid ignoring case (allocation failure aside); the disk        *)
(* carries the header's uuid and modname "luks2" and is otherwise zeroed;  *)
(* a header failure returns none with the global error cleared.            *)
(***************************************************************************)
C9_Scan ==
    (pc \in {"no_disk", "recover_key"}) =>
        /\ crypt.alloc <=>
              /\ ~input.check_boot
              /\ PrimaryValid /\ SecondaryValid
              /\ \/ ~input.check_uuid.present
                 \/ SameUuidIgnoringCase(input.check_uuid.str, ChosenHeader.uuid)
              /\ input.scan_alloc_ok
        /\ crypt.alloc =>
              /\ crypt.uuid = ChosenHeader.uuid
              /\ crypt.modname = "luks2"
              /\ [crypt EXCEPT !.uuid = <<>>, !.modname = ""] = ZeroedDisk
        /\ (~input.check_boot /\ ~(PrimaryValid /\ SecondaryValid)) =>
              (~crypt.alloc /\ grub_errno = GRUB_ERR_NONE)

C9_Witness ==
    /\ pc = "recover_key" /\ crypt.alloc
    /\ input.check_uuid.present /\ input.check_uuid.str # crypt.uuid

JsonAreaRead == ReadJsonAt(ReadSource(input), JsonOffset(loc.header))

(***************************************************************************)
(* C10: luks2_recover_key returns success only if some keyslot passed      *)
(* digest verification and the master key was installed during this        *)
(* attempt; a JSON area without a NUL terminator ends in an error.         *)
(***************************************************************************)
C10_SuccessMeansUnlocked ==
    /\ (pc = "done" /\ loc.ret = GRUB_ERR_NONE) => (loc.opened # -1 /\ loc.installed)
    /\ (pc = "done" /\ loc.json_header # "null" /\ ~JsonAreaRead.nul) =>
          loc.ret # GRUB_ERR_NONE

(***************************************************************************)
(* luks2_get_keyslot on its own, over JSON roots whose keyslot key, digest *)
(* list and segment list vary.                                             *)
(***************************************************************************)
KeyStrings == {<<"0">>, <<"1">>, <<"3", "1">>, <<"3", "2">>}

DigestEntries ==
    { Keyed(ds) : ds \in SeqsUpTo({"D_k0_s0", "D_k1_s1", "D_k32_s0", "D_k31_s32",
                                   "D_badtype"}, MaxRefs) }

SegmentEntries ==
    SeqsUpTo({ [key |-> <<"0">>, obj |-> "Seg0"], [key |-> <<"1">>, obj |-> "Seg1"],
               [key |-> <<"3", "2">>, obj |-> "Seg1"],
               [key |-> <<"0">>, obj |-> "Seg_badtype"] }, MaxRefs)

KeyslotInputs ==
    { [build |-> b, keyslot_idx |-> 0,
       root |-> [has |-> {"keyslots", "digests", "segments"},
                 keyslots |-> <<[key |-> k, obj |-> "K_p1a"]>>,
                 digests |-> ds, segments |-> sg]] :
        b \in ShiftBuilds, k \in KeyStrings, ds \in DigestEntries, sg \in SegmentEntries }

InitKeyslot ==
    /\ input \in KeyslotInputs
    /\ pc = "get_keyslot"
    /\ grub_errno = GRUB_ERR_NONE
    /\ grub_errmsg = ""
    /\ crypt = NullDisk
    /\ rh = [called |-> FALSE]
    /\ loc = InitLoc
    /\ bufs = InitBufs
    /\ trace = <<>>
    /\ prev = NoPrev

GetKeyslot ==
    /\ pc = "get_keyslot"
    /\ LET g == luks2_get_keyslot(input.build, input.root, input.keyslot_idx)
       IN  loc' = [loc EXCEPT !.ret = g.ret, !.keyslot = g.k, !.digest = g.d,
                              !.segment = g.s]
    /\ pc' = "resolved"
    /\ UNCHANGED <<input, grub_errno, grub_errmsg, crypt, rh, bufs, trace, prev>>

NextKeyslot == GetKeyslot

SpecKeyslot == InitKeyslot /\ [][NextKeyslot]_vars

\* What the digests and segments of the root say, entry by entry.
ParsedDigest(i) == luks2_parse_digest(input.build, JsonObject(input.root.digests[i].obj))
ParsedSegment(j) == luks2_parse_segment(JsonObject(input.root.segments[j].obj))

FirstOf(S) == CHOOSE n \in S : \A m \in S : n <= m

(***************************************************************************)
(* C11: for a decodable keyslot of key k, luks2_get_keyslot returns the    *)
(* first digest in root.digests order whose keyslots bitmap has bit k set  *)
(* and the first segment in root.segments order whose key is set in that   *)
(* digest's segments bitmap; it fails with FileNotFound when nothing       *)
(* matches and with BadArgument when an entry before the match does not    *)
(* parse.                                                                  *)
(***************************************************************************)
C11_Resolution ==
    pc = "resolved" =>
        LET k == grub_strtoull(input.root.keyslots[1].key)
            dn == 1..Len(input.root.digests)
            sn == 1..Len(input.root.segments)
            dbad == {i \in dn : ParsedDigest(i).ret # GRUB_ERR_NONE}
            dhit == {i \in dn \ dbad : k \in ParsedDigest(i).out.keyslots}
            dstop == FirstOf(dbad \cup dhit)
            d == ParsedDigest(dstop).out
            sbad == {j \in sn : ParsedSegment(j).ret # GRUB_ERR_NONE}
            shit == {j \in sn \ sbad :
                        grub_strtoull(input.root.segments[j].key) \in d.segments}
            sstop == FirstOf(sbad \cup shit)
        IN  IF dbad \cup dhit = {} THEN loc.ret = GRUB_ERR_FILE_NOT_FOUND
            ELSE IF dstop \in dbad THEN loc.ret = GRUB_ERR_BAD_ARGUMENT
            ELSE IF sbad \cup shit = {} THEN loc.ret = GRUB_ERR_FILE_NOT_FOUND
            ELSE IF sstop \in sbad THEN loc.ret = GRUB_ERR_BAD_ARGUMENT
            ELSE /\ loc.ret = GRUB_ERR_NONE
                 /\ loc.digest = d
                 /\ loc.segment = ParsedSegment(sstop).out

\* What the trace says of the attempt on keyslot n: the split-key buffer
\* could not be allocated, or the keyslot area could not be read.
Did(op, n) == \E k \in 1..Len(trace) : trace[k] = <<op, n>>
OutOfMemoryAt(n) == Did("malloc", n) /\ ~Did("read", n)
IoFailureAt(n) == Did("read", n) /\ ~Did("decrypt", n)
NothingAfter(n) == \A k \in 1..Len(trace) : trace[k][2] <= n

(***************************************************************************)
(* C12: when the attempt on a keyslot fails with OutOfMemory (allocating   *)
(* the split-key buffer) or with an Io failure (reading the keyslot area), *)
(* luks2_recover_key returns that error at once: no later slot is tried    *)
(* and the result is not AccessDenied "Invalid passphrase".                *)
(***************************************************************************)
C12_ResourceErrorsSurface ==
    \A k \in 1..Len(trace) :
        LET n == trace[k][2]
        IN  /\ OutOfMemoryAt(n) =>
                  /\ NothingAfter(n)
                  /\ pc = "done" => loc.ret = GRUB_ERR_OUT_OF_MEMORY
            /\ IoFailureAt(n) =>
                  /\ NothingAfter(n)
                  /\ pc = "done" => loc.ret \in {GRUB_ERR_READ_ERROR, GRUB_ERR_IO}

(***************************************************************************)
(* C13: when luks2_recover_key has returned, the JSON buffer and the       *)
(* parsed JSON tree are released if they were allocated, on success and on *)
(* every error path, and the split-key buffer of luks2_decrypt_key is      *)
(* released whenever luks2_decrypt_key has returned.                       *)
(***************************************************************************)
C13_Released ==
    /\ bufs.split_state # "alloc"
    /\ pc = "done" => (loc.json_header # "alloc" /\ loc.json # "parsed")

====
